---- MODULE Spec2Model ----
(***************************************************************************)
(* Model of CurrencyNormalizer/lambda_function.py: one invocation of       *)
(* lambda_handler.  The rate feed, the raw bucket, the DynamoDB table and  *)
(* the processed bucket are the environment; their answers (response,      *)
(* file content, rejected calls) are inputs of the actions.                *)
(*                                                                         *)
(* A Decimal is [sign, coef, exp] with value (-1)^sign * coef * 10^exp, as *)
(* in Python's decimal module.  Strings that are parsed or produced (the   *)
(* price field) are tuples of one-character strings.                       *)
(***************************************************************************)
EXTENDS Integers, Sequences, FiniteSets, TLC

\* ------------------------------------------------------------------ bounds
MaxFiles == 2      \* event['Records'] holds at most this many file references
MaxRows == 3       \* rows read from the raw bucket during one invocation

\* ------------------------------------------------------------- input sets
Digits == {"0", "1", "2", "3", "4", "5", "6", "7", "8", "9"}

\* price strings found in the files
PriceStrings ==
  { <<"1", "0", ".", "0", "0", "5">>,
    <<"a", "b", "c">> }

\* currency codes found in the files
RowCurrencies == {"USD", "EUR"}

\* header rows of the files (csv.DictReader gives every row the header's keys)
Headers ==
  { {"zpid", "price", "currency"},
    {"price", "currency"},
    {"zpid", "currency"},
    {"zpid", "price"} }

Dec(s, c, e) == [sign |-> s, coef |-> c, exp |-> e]

\* raw rates of the feed: JSON numbers that Decimal() represents exactly
RawRates == { Dec(0, 0, 0), Dec(0, 1, 0) }
EurRates == { Dec(0, 4, 0) }

\* the 'rates' object of the response: currency -> raw rate
RateObjects ==
  { [c \in {} |-> Dec(0, 0, 0)] }
  \cup { [c \in {"USD"} |-> u] : u \in RawRates }
  \cup { [c \in {"EUR"} |-> e] : e \in EurRates }
  \cup { [c \in {"USD", "EUR"} |-> IF c = "USD" THEN ue[1] ELSE ue[2]] :
           ue \in RawRates \X EurRates }

\* the feed's answer: the request fails, or a body with a 'rates' object
Feeds == { [ok |-> FALSE, rates |-> <<>>] }
         \cup { [ok |-> TRUE, rates |-> r] : r \in RateObjects }

\* ------------------------------------------------------- decimal arithmetic
RECURSIVE Pow10(_)
Pow10(n) == IF n = 0 THEN 1 ELSE 10 * Pow10(n - 1)

DigitVal(c) ==
  CASE c = "0" -> 0 [] c = "1" -> 1 [] c = "2" -> 2 [] c = "3" -> 3
    [] c = "4" -> 4 [] c = "5" -> 5 [] c = "6" -> 6 [] c = "7" -> 7
    [] c = "8" -> 8 [] c = "9" -> 9

DigitChar(d) ==
  CASE d = 0 -> "0" [] d = 1 -> "1" [] d = 2 -> "2" [] d = 3 -> "3"
    [] d = 4 -> "4" [] d = 5 -> "5" [] d = 6 -> "6" [] d = 7 -> "7"
    [] d = 8 -> "8" [] d = 9 -> "9"

RECURSIVE DigitsToNat(_)
DigitsToNat(ds) ==
  IF ds = <<>> THEN 0
  ELSE 10 * DigitsToNat(SubSeq(ds, 1, Len(ds) - 1)) + DigitVal(ds[Len(ds)])

RECURSIVE NatToDigits(_)
NatToDigits(n) ==
  IF n < 10 THEN <<DigitChar(n)>>
  ELSE Append(NatToDigits(n \div 10), DigitChar(n % 10))

IsDigit(c) == c \in Digits

\* Decimal(s): optional sign, digits with at most one point, at least one
\* digit; anything else raises InvalidOperation (ok = FALSE)
ParseDecimal(s) ==
  LET signed == Len(s) > 0 /\ s[1] \in {"-", "+"}
      body == IF signed THEN Tail(s) ELSE s
      dots == {i \in 1..Len(body) : body[i] = "."}
      digs == SelectSeq(body, IsDigit)
      wellFormed == /\ \A i \in 1..Len(body) : body[i] \in Digits \cup {"."}
                    /\ Cardinality(dots) <= 1
                    /\ Len(digs) >= 1
      fracLen == IF dots = {} THEN 0 ELSE Len(body) - (CHOOSE i \in dots : TRUE)
  IN IF wellFormed
       THEN [ok |-> TRUE,
             value |-> Dec(IF signed /\ s[1] = "-" THEN 1 ELSE 0,
                           DigitsToNat(digs), -fracLen)]
       ELSE [ok |-> FALSE, value |-> Dec(0, 0, 0)]

\* a * b
DecMul(a, b) == Dec((a.sign + b.sign) % 2, a.coef * b.coef, a.exp + b.exp)

\* a / b for b # 0, when the quotient terminates: the shortest coefficient
\* whose exponent does not exceed the ideal exponent a.exp - b.exp
RECURSIVE DivShift(_, _, _)
DivShift(n, d, k) == IF (n * Pow10(k)) % d = 0 THEN k ELSE DivShift(n, d, k + 1)

DecDiv(a, b) ==
  IF a.coef = 0
    THEN Dec((a.sign + b.sign) % 2, 0, a.exp - b.exp)
    ELSE LET k == DivShift(a.coef, b.coef, 0)
         IN Dec((a.sign + b.sign) % 2, (a.coef * Pow10(k)) \div b.coef,
                a.exp - b.exp - k)

\* d.quantize(Decimal('0.01'), rounding=ROUND_HALF_UP)
Quantize(d) ==
  IF d.exp >= -2
    THEN Dec(d.sign, d.coef * Pow10(d.exp + 2), -2)
    ELSE LET unit == Pow10(-2 - d.exp)
             q == d.coef \div unit
             r == d.coef % unit
         IN Dec(d.sign, IF 2 * r >= unit THEN q + 1 ELSE q, -2)

\* str(d) of a Decimal with exponent -2
DecStr(d) ==
  (IF d.sign = 1 THEN <<"-">> ELSE <<>>)
  \o NatToDigits(d.coef \div 100)
  \o <<".", DigitChar((d.coef % 100) \div 10), DigitChar(d.coef % 10)>>

convert_currency(price, exchange_rate) == Quantize(DecMul(price, exchange_rate))


\* ------------------------------------------------------------ the functions
RefCurrency == "USD"

\* fetch_exchange_rates: raises when the request fails or no USD rate is in
\* the body; otherwise USD rate / rate for every currency whose rate is truthy
\* the same without the 'is None' test: Decimal(None) still raises when some
\* rate is truthy, an empty or all-zero body gives an empty table
FetchRaises_NoNoneCheck(resp) ==
  \/ ~resp.ok
  \/ /\ RefCurrency \notin DOMAIN resp.rates
     /\ \E c \in DOMAIN resp.rates : resp.rates[c].coef # 0

FetchRaises(resp) == ~resp.ok \/ RefCurrency \notin DOMAIN resp.rates

fetch_exchange_rates(resp) ==
  [c \in {x \in DOMAIN resp.rates : resp.rates[x].coef # 0} |->
     DecDiv(resp.rates[RefCurrency], resp.rates[c])]

\* one row of csv.DictReader: the header's keys with the line's values
MkRow(header, j, val) ==
  [f \in header |-> CASE f = "zpid" -> DigitChar(j)
                      [] f = "price" -> val[1]
                      [] f = "currency" -> val[2]]

read_csv_from_s3(header, vals) ==
  [j \in 1..Len(vals) |-> MkRow(header, j, vals[j])]

\* the row with row['creationDate'] = now
Stamp(row, now) ==
  [f \in DOMAIN row \cup {"creationDate"} |->
     IF f = "creationDate" THEN now ELSE row[f]]

\* lines 88-89: price and currency of a row whose currency is in the table
Convert(row, price, exchange_rates) ==
  [row EXCEPT !["price"] =
                 DecStr(convert_currency(price, exchange_rates[row["currency"]])),
              !["currency"] = RefCurrency]

\* process_csv_data from row j on; acc is processed_data so far, now the clock.
\* Decimal(row['price']) raising leaves the function (raised = TRUE).
RECURSIVE process_csv_data(_, _, _, _, _)
process_csv_data(csv, exchange_rates, j, acc, now) ==
  IF j > Len(csv)
    THEN [raised |-> FALSE, data |-> acc, now |-> now]
    ELSE
      LET row == csv[j] IN
      IF "price" \in DOMAIN row /\ "currency" \in DOMAIN row
        THEN
          LET p == ParseDecimal(row["price"]) IN
          IF ~p.ok
            THEN [raised |-> TRUE, data |-> <<>>, now |-> now]
            ELSE
              LET out == IF row["currency"] \in DOMAIN exchange_rates
                           THEN Convert(row, p.value, exchange_rates)
                           ELSE row
              IN process_csv_data(csv, exchange_rates, j + 1,
                                  Append(acc, Stamp(out, now)), now + 1)
        ELSE process_csv_data(csv, exchange_rates, j + 1, acc, now)

\* the per-item try of upload_to_dynamodb: item j fails when it has no zpid
\* (KeyError) or when batch.put_item raises for it
ItemFails(items, j, rejected) == "zpid" \notin DOMAIN items[j] \/ j \in rejected

\* upload_to_dynamodb from item j on: the items handed to batch.put_item and
\* the positions whose except branch ran
\* raised: an exception left the function from inside the loop
RECURSIVE upload_to_dynamodb_NoItemTry(_, _, _)
upload_to_dynamodb_NoItemTry(items, j, rejected) ==
  IF j > Len(items)
    THEN [submitted |-> <<>>, errors |-> {}, raised |-> FALSE]
    ELSE
      IF ItemFails(items, j, rejected)
        THEN [submitted |-> <<>>, errors |-> {}, raised |-> TRUE]
        ELSE LET rest == upload_to_dynamodb_NoItemTry(items, j + 1, rejected)
             IN [submitted |-> <<items[j]>> \o rest.submitted,
                 errors |-> rest.errors, raised |-> rest.raised]

RECURSIVE upload_to_dynamodb(_, _, _)
upload_to_dynamodb(items, j, rejected) ==
  IF j > Len(items)
    THEN [submitted |-> <<>>, errors |-> {}, raised |-> FALSE]
    ELSE
      LET rest == upload_to_dynamodb(items, j + 1, rejected) IN
      IF ItemFails(items, j, rejected)
        THEN [submitted |-> rest.submitted, errors |-> {j} \cup rest.errors,
              raised |-> FALSE]
        ELSE [submitted |-> <<items[j]>> \o rest.submitted,
              errors |-> rest.errors, raised |-> FALSE]

\* write_processed_csv_to_s3: data[0] of an empty list raises IndexError and
\* put_object may raise; both are caught by the function's own except.
\* put: put_object was carried out; caught: the except branch ran;
\* raised: an exception left the function
\* the same without the try: a failed put_object leaves the function
write_processed_csv_to_s3_PutPropagates(data, putFails) ==
  [put |-> data # <<>> /\ ~putFails,
   caught |-> data = <<>>,
   raised |-> data # <<>> /\ putFails]

\* the same with the header derived before the try: IndexError leaves it
write_processed_csv_to_s3_HeaderOutsideTry(data, putFails) ==
  [put |-> data # <<>> /\ ~putFails,
   caught |-> data # <<>> /\ putFails,
   raised |-> data = <<>>]

write_processed_csv_to_s3(data, putFails) ==
  [put |-> data # <<>> /\ ~putFails,
   caught |-> data = <<>> \/ putFails,
   raised |-> FALSE]

ArchiveObject(key, data) ==
  [key |-> <<"processed_", key>>, fieldnames |-> DOMAIN data[1], rows |-> data]

\* -------------------------------------------------------------------- state
VARIABLES
  pc,             \* position in lambda_handler
  nRecords,       \* Len(event['Records']); the file references are 1..nRecords
  i,              \* the record of the for loop
  response,       \* the rate feed's answer
  exchange_rates, \* the rate table
  csv_data, processed_data,  \* the current file's rows and records
  clock,          \* datetime.utcnow()
  rowsRead,       \* rows read so far
  gets,           \* keys of the get_object calls, in order
  table,          \* items handed to batch.put_item, in order, with their file
  archiveCalls,   \* keys for which write_processed_csv_to_s3 was called
  archive,        \* objects written by put_object, in order
  fileErrors,     \* <<key, exception>> printed by lambda_handler's except branch
  itemErrors,     \* <<key, position>> for which upload's except branch ran
  archiveErrors,  \* keys for which the archive writer's except branch ran
  result          \* what the invocation returned

vars == <<pc, nRecords, i, response, exchange_rates, csv_data, processed_data,
          clock, rowsRead, gets, table, archiveCalls, archive, fileErrors,
          itemErrors, archiveErrors, result>>

NoResponse == [ok |-> FALSE, rates |-> <<>>]

Init ==
  /\ pc = "fetch"
  /\ nRecords \in 0..MaxFiles
  /\ i = 1
  /\ response = NoResponse
  /\ exchange_rates = <<>>
  /\ csv_data = <<>>
  /\ processed_data = <<>>
  /\ clock = 0
  /\ rowsRead = 0
  /\ gets = <<>>
  /\ table = <<>>
  /\ archiveCalls = {}
  /\ archive = <<>>
  /\ fileErrors = {}
  /\ itemErrors = {}
  /\ archiveErrors = {}
  /\ result = "none"

\* where the for loop goes after record k
LoopNext(k) == IF k + 1 > nRecords THEN "return" ELSE "read"

\* the same with the try around the whole loop: the first failure ends it
OnFileError_LeavesLoop(k) == "return"

\* the except branch of the per-file try (lines 43-44), then the next record
OnFileError(k) == LoopNext(k)

FileFailed(e) ==
  /\ pc' = OnFileError(i)
  /\ i' = i + 1
  /\ fileErrors' = fileErrors \cup {<<i, e>>}

FileDone ==
  /\ pc' = LoopNext(i)
  /\ i' = i + 1
  /\ UNCHANGED fileErrors

\* line 29
FetchExchangeRates ==
  /\ pc = "fetch"
  /\ \E resp \in Feeds :
       /\ response' = resp
       /\ IF FetchRaises(resp)
            THEN /\ pc' = "raised"
                 /\ result' = "error"
                 /\ UNCHANGED exchange_rates
            ELSE /\ pc' = IF nRecords = 0 THEN "return" ELSE "read"
                 /\ exchange_rates' = fetch_exchange_rates(resp)
                 /\ UNCHANGED result
  /\ UNCHANGED <<nRecords, i, csv_data, processed_data, clock, rowsRead, gets,
                 table, archiveCalls, archive, fileErrors, itemErrors,
                 archiveErrors>>

\* line 37
ReadCsvFromS3 ==
  /\ pc = "read"
  /\ gets' = Append(gets, i)
  /\ \/ /\ FileFailed("get_object")
        /\ UNCHANGED <<csv_data, rowsRead>>
     \/ \E header \in Headers, n \in 0..(MaxRows - rowsRead) :
          \E vals \in [1..n -> PriceStrings \X RowCurrencies] :
            /\ csv_data' = read_csv_from_s3(header, vals)
            /\ rowsRead' = rowsRead + n
            /\ pc' = "process"
            /\ UNCHANGED <<i, fileErrors>>
  /\ UNCHANGED <<nRecords, response, exchange_rates, processed_data, clock,
                 table, archiveCalls, archive, itemErrors, archiveErrors,
                 result>>

\* line 38
ProcessCsvData ==
  /\ pc = "process"
  /\ LET r == process_csv_data(csv_data, exchange_rates, 1, <<>>, clock) IN
       /\ clock' = r.now
       /\ IF r.raised
            THEN FileFailed("Decimal") /\ UNCHANGED processed_data
            ELSE /\ processed_data' = r.data
                 /\ pc' = "upload"
                 /\ UNCHANGED <<i, fileErrors>>
  /\ UNCHANGED <<nRecords, response, exchange_rates, csv_data, rowsRead, gets,
                 table, archiveCalls, archive, itemErrors, archiveErrors,
                 result>>

\* line 39; batchFails: the batch writer itself raises (outside the per-item try)
UploadToDynamodb ==
  /\ pc = "upload"
  /\ \E rejected \in SUBSET (1..Len(processed_data)), batchFails \in BOOLEAN :
       LET u == upload_to_dynamodb(processed_data, 1, rejected) IN
         /\ table' = table \o [j \in 1..Len(u.submitted) |->
                                 [key |-> i, item |-> u.submitted[j]]]
         /\ itemErrors' = itemErrors \cup {<<i, j>> : j \in u.errors}
         /\ IF u.raised
              THEN FileFailed("put_item")
              ELSE IF batchFails
                     THEN FileFailed("batch_writer")
                     ELSE /\ pc' = "archive"
                          /\ UNCHANGED <<i, fileErrors>>
  /\ UNCHANGED <<nRecords, response, exchange_rates, csv_data, processed_data,
                 clock, rowsRead, gets, archiveCalls, archive, archiveErrors,
                 result>>

\* lines 40-41
WriteProcessedCsvToS3 ==
  /\ pc = "archive"
  /\ archiveCalls' = archiveCalls \cup {i}
  /\ \E putFails \in BOOLEAN :
       LET w == write_processed_csv_to_s3(processed_data, putFails) IN
         /\ archive' = IF w.put
                         THEN Append(archive, ArchiveObject(i, processed_data))
                         ELSE archive
         /\ archiveErrors' = IF w.caught THEN archiveErrors \cup {i}
                                         ELSE archiveErrors
         /\ IF w.raised THEN FileFailed("put_object") ELSE FileDone
  /\ UNCHANGED <<nRecords, response, exchange_rates, csv_data, processed_data,
                 clock, rowsRead, gets, table, itemErrors, result>>

\* lines 46-49
Return ==
  /\ pc = "return"
  /\ pc' = "done"
  /\ result' = "200"
  /\ UNCHANGED <<nRecords, i, response, exchange_rates, csv_data,
                 processed_data, clock, rowsRead, gets, table, archiveCalls,
                 archive, fileErrors, itemErrors, archiveErrors>>

Next ==
  \/ FetchExchangeRates
  \/ ReadCsvFromS3
  \/ ProcessCsvData
  \/ UploadToDynamodb
  \/ WriteProcessedCsvToS3
  \/ Return

Spec == Init /\ [][Next]_vars


\* ------------------------------------------------------------------ claims
\* fetch_exchange_rates has returned a table
RatesBuilt ==
  pc # "fetch" /\ response.ok /\ RefCurrency \in DOMAIN response.rates

\* the file references whose read has been attempted when control is at pc
Attempted == IF pc \in {"process", "upload", "archive"} THEN i ELSE i - 1

\* steps the handler still has to take before it has returned
Remaining ==
  CASE pc = "done" -> 0
    [] pc = "return" -> 1
    [] pc = "archive" -> 4 * (nRecords - i) + 2
    [] pc = "upload" -> 4 * (nRecords - i) + 3
    [] pc = "process" -> 4 * (nRecords - i) + 4
    [] pc = "read" -> 4 * (nRecords - i) + 5
    [] OTHER -> 4 * nRecords + 6

\* C3: once the rate table is built the file references are read in order,
\* none is skipped whatever failed before it, no exception leaves the handler,
\* every step brings the return nearer, and the invocation returns
\* statusCode 200 after the last file reference.
C3_EveryFileAttempted ==
  /\ [](RatesBuilt =>
          /\ pc \in {"read", "process", "upload", "archive", "return", "done"}
          /\ gets = [k \in 1..Attempted |-> k]
          /\ (pc \in {"return", "done"} => Len(gets) = nRecords)
          /\ (pc = "done" <=> result = "200"))
  /\ [][RatesBuilt => Remaining' < Remaining]_vars

\* a file failed and a later file was read, uploaded and archived
C3_Witness ==
  /\ pc = "done"
  /\ \E e \in fileErrors, k \in 1..nRecords :
       /\ k > e[1]
       /\ \E n \in 1..Len(archive) : archive[n].key = <<"processed_", k>>
       /\ \E n \in 1..Len(table) : table[n].key = k

HasBoth(row) == "price" \in DOMAIN row /\ "currency" \in DOMAIN row

\* y is x rounded to 2 fractional digits, ties away from zero
IsHalfUp2(x, y) ==
  /\ y.exp = -2
  /\ y.sign = x.sign
  /\ IF x.exp >= -2
       THEN y.coef = x.coef * Pow10(x.exp + 2)
       ELSE LET u == Pow10(-2 - x.exp)
            IN /\ 2 * (y.coef * u - x.coef) <= u
               /\ 2 * (x.coef - y.coef * u) < u

\* out is row with the price converted at the table's multiplier, the
\* currency set to USD and every other field kept
EmittedConverted(row, out) ==
  /\ DOMAIN out = DOMAIN row \cup {"creationDate"}
  /\ out["currency"] = "USD"
  /\ ParseDecimal(out["price"]).ok
  /\ IsHalfUp2(DecMul(ParseDecimal(row["price"]).value,
                      exchange_rates[row["currency"]]),
               ParseDecimal(out["price"]).value)
  /\ \A f \in DOMAIN row \ {"price", "currency"} : out[f] = row[f]

\* out is row with nothing but creationDate added
PassedThrough(row, out) ==
  /\ DOMAIN out = DOMAIN row \cup {"creationDate"}
  /\ \A f \in DOMAIN row : out[f] = row[f]

Convertible(row) ==
  /\ HasBoth(row)
  /\ ParseDecimal(row["price"]).ok
  /\ row["currency"] \in DOMAIN exchange_rates

\* C1: every row with a valid decimal price and a currency of the rate table
\* is emitted by process_csv_data with the price multiplied and rounded
\* half-up to 2 fractional digits and with currency USD.
C1_ConvertibleRowEmitted ==
  [][pc = "process" =>
       \A j \in 1..Len(csv_data) :
         Convertible(csv_data[j]) =>
           /\ pc' = "upload"
           /\ \E k \in 1..Len(processed_data') :
                EmittedConverted(csv_data[j], processed_data'[k])]_vars

\* Whenever process_csv_data returns, the n-th row of a file whose rows all
\* have both fields is the n-th record, converted half-up when its currency
\* is in the table.
ConvertedWhenReturned ==
  [][(pc = "process" /\ pc' = "upload") =>
       \A j \in 1..Len(csv_data) :
         Convertible(csv_data[j]) =>
           /\ Len(processed_data') = Len(csv_data)
           /\ EmittedConverted(csv_data[j], processed_data'[j])]_vars

BadPrice(row) == HasBoth(row) /\ ~ParseDecimal(row["price"]).ok

GoodPrice(row) == ~BadPrice(row)

\* C2: a file with a row whose price is not a decimal yields the other rows,
\* normalized, in input order, and goes on to be persisted.
C2_BadPriceRowDropped ==
  [][(pc = "process" /\ \E j \in 1..Len(csv_data) : BadPrice(csv_data[j])) =>
       /\ pc' = "upload"
       /\ processed_data' =
            process_csv_data(SelectSeq(csv_data, GoodPrice), exchange_rates,
                             1, <<>>, clock).data]_vars

\* C4: a row without a price field or without a currency field is in the
\* output with its fields unchanged and creationDate added.
C4_MissingFieldPassThrough ==
  [][pc = "process" =>
       \A j \in 1..Len(csv_data) :
         ~HasBoth(csv_data[j]) =>
           /\ pc' = "upload"
           /\ \E k \in 1..Len(processed_data') :
                PassedThrough(csv_data[j], processed_data'[k])]_vars

\* C5: a row with both fields whose currency is not in the rate table raises
\* no error and is in the output with price and currency unchanged and
\* creationDate added, whatever its price field holds.
C5_UnknownCurrencyPassThrough ==
  [][pc = "process" =>
       \A j \in 1..Len(csv_data) :
         (HasBoth(csv_data[j])
            /\ csv_data[j]["currency"] \notin DOMAIN exchange_rates) =>
           /\ pc' = "upload"
           /\ \E k \in 1..Len(processed_data') :
                PassedThrough(csv_data[j], processed_data'[k])]_vars

\* the feed gave nothing to build a table from
FeedUnusable == ~response.ok \/ RefCurrency \notin DOMAIN response.rates

\* C6: when the request fails or the body has no USD rate the invocation
\* fails with the error, and until a rate table exists no file is read, no
\* item is put and no archive object is written.
C6_FetchFailureStopsAll ==
  /\ (pc # "fetch" /\ FeedUnusable) => (pc = "raised" /\ result = "error")
  /\ (pc \in {"fetch", "raised"}) =>
       (gets = <<>> /\ table = <<>> /\ archive = <<>> /\ archiveCalls = {})

\* the body had rates but none for USD, and there were files to process
C6_Witness ==
  /\ pc = "raised"
  /\ response.ok
  /\ DOMAIN response.rates # {}
  /\ RefCurrency \notin DOMAIN response.rates
  /\ nRecords > 0

\* C7: no rate table is returned when the USD raw rate is absent or zero.
C7_NoTableWithoutReferenceRate ==
  (/\ pc # "fetch"
   /\ response.ok
   /\ (\/ RefCurrency \notin DOMAIN response.rates
       \/ response.rates[RefCurrency].coef = 0))
    => pc = "raised"

\* C8: the items of a file are put before its archive write is called, and
\* the archive writer, also when it fails, changes no item and raises nothing
\* to the handler.
C8_ArchiveFailureKeepsItems ==
  [][/\ (table' # table => (pc = "upload" /\ i \notin archiveCalls))
     /\ (pc' = "archive" => pc = "upload")
     /\ (pc = "archive" =>
           /\ archiveCalls' = archiveCalls \cup {i}
           /\ table' = table
           /\ fileErrors' = fileErrors
           /\ i' = i + 1)]_vars

\* put_object failed for a file whose items had been put
C8_Witness ==
  \E k \in archiveErrors :
    /\ \E n \in 1..Len(table) : table[n].key = k
    /\ \A n \in 1..Len(archive) : archive[n].key # <<"processed_", k>>
    /\ \A e \in fileErrors : e[1] # k

\* the items at the positions not in errs, in order
RECURSIVE Without(_, _, _)
Without(items, errs, j) ==
  IF j > Len(items) THEN <<>>
  ELSE (IF j \in errs THEN <<>> ELSE <<items[j]>>) \o Without(items, errs, j + 1)

\* C9: in the upload of a file every item whose own put did not fail is put,
\* in order, an item without zpid fails alone, and the archive write follows
\* unless the batch writer itself raised.
C9_ItemFailureIsolated ==
  [][pc = "upload" =>
       LET errs == {j \in 1..Len(processed_data) : <<i, j>> \in itemErrors'}
           kept == Without(processed_data, errs, 1)
       IN /\ table' = table \o [n \in 1..Len(kept) |->
                                  [key |-> i, item |-> kept[n]]]
          /\ \A j \in 1..Len(processed_data) :
               "zpid" \notin DOMAIN processed_data[j] => j \in errs
          /\ \A j \in errs : <<i, j>> \notin itemErrors
          /\ (pc' = "archive" \/ <<i, "batch_writer">> \in fileErrors')]_vars

\* the second of three items failed, the first and the third were put and the
\* archive writer was called
C9_Witness ==
  \E k \in archiveCalls :
    /\ <<k, 2>> \in itemErrors
    /\ <<k, 1>> \notin itemErrors
    /\ <<k, 3>> \notin itemErrors
    /\ \E m, n \in 1..Len(table) :
         /\ m < n
         /\ table[m].key = k /\ table[m].item["zpid"] = "1"
         /\ table[n].key = k /\ table[n].item["zpid"] = "3"

\* C10: with no records the archive writer calls no put_object and lets no
\* exception out.
C10_EmptyBatchNoArchiveWrite ==
  [][(pc = "archive" /\ processed_data = <<>>) =>
       /\ archive' = archive
       /\ fileErrors' = fileErrors
       /\ pc' \in {"read", "return"}]_vars

\* the archive writer was called with no records for a file that had rows
C10_Witness ==
  /\ pc \in {"read", "return"}
  /\ i - 1 \in archiveCalls
  /\ processed_data = <<>>
  /\ csv_data # <<>>
  /\ i - 1 \in archiveErrors

====
